---------------------------- MODULE Spec2Model ----------------------------
(***************************************************************************)
(* Model of the todo list application: the HTTP API of TodoController over *)
(* TodoService and the in-memory TodoItems table, and the title policy of  *)
(* the model attributes and of the React client, and the React view (App)  *)
(* with the requests of todoService in flight between the two.             *)
(*                                                                         *)
(* A string is a sequence of characters, and a character is a string: the  *)
(* character itself, its escape, or the name of its code point ("U+00A0")  *)
(* when it can be written in neither way.                                  *)
(***************************************************************************)
EXTENDS Integers, Sequences, FiniteSets, Bags, TLC

(***************************************************************************)
(* Bounds of the model and program constants.                              *)
(***************************************************************************)
\* The largest identifier a request carries or the table assigns; the table
\* holds at most MaxId rows.
MaxId == 2

\* [StringLength(100)] on TodoItem.Title.
MaxTitleLength == 100

\* input.length > 100 in validateInput.
MaxInputLength == 100

\* maxlength="50" of the title input: the longest value the user can enter.
MaxLength == 50

\* The largest number of view operations (a request and the re-fetch that
\* follows it) in flight at a time.
MaxInFlight == 2

\* The length of the longest of the enumerated values of the title input.
MaxTyped == 4

\* The largest number of handlers that await SaveChangesAsync at a time;
\* the handlers of the other requests run to their answer meanwhile.
MaxSaving == 1

(***************************************************************************)
(* Strings.                                                                *)
(***************************************************************************)
Rep(c, n) == [i \in 1..n |-> c]

\* The characters of the Unicode category Zs (space separators).
SpaceSeparators ==
    {" ", "U+00A0", "U+1680", "U+2000", "U+2001", "U+2002", "U+2003", "U+2004",
     "U+2005", "U+2006", "U+2007", "U+2008", "U+2009", "U+200A", "U+202F",
     "U+205F", "U+3000"}

\* The characters String.prototype.trim removes: the WhiteSpace and the
\* LineTerminator of ECMAScript.
Whitespace ==
    {"\t", "\n", "U+000B", "\f", "\r", "U+FEFF", "U+2028", "U+2029"}
        \cup SpaceSeparators

\* The characters Char.IsWhiteSpace of .NET holds for: U+0085 is one of
\* them and U+FEFF is not.
NetWhiteSpace ==
    {"\t", "\n", "U+000B", "\f", "\r", "U+0085", "U+2028", "U+2029"}
        \cup SpaceSeparators

\* The number of white space characters s starts with, for an s that is
\* not all white space.
LeadingWhitespace(s) ==
    CHOOSE n \in 0..(Len(s) - 1) :
        s[n + 1] \notin Whitespace /\ \A j \in 1..n : s[j] \in Whitespace

\* The number of white space characters s ends with, for an s that is not
\* all white space.
TrailingWhitespace(s) ==
    CHOOSE n \in 0..(Len(s) - 1) :
        /\ s[Len(s) - n] \notin Whitespace
        /\ \A j \in (Len(s) - n + 1)..Len(s) : s[j] \in Whitespace

\* String.prototype.trim: s without the white space it starts and ends with.
Trim(s) ==
    IF \A i \in 1..Len(s) : s[i] \in Whitespace THEN <<>>
    ELSE SubSeq(s, LeadingWhitespace(s) + 1, Len(s) - TrailingWhitespace(s))

\* The index of the first ">" of s at or after j, Len(s) + 1 when there is none.
NextGt(s, j) ==
    IF \E k \in j..Len(s) : s[k] = ">"
    THEN CHOOSE k \in j..Len(s) : s[k] = ">" /\ \A m \in j..(k - 1) : s[m] # ">"
    ELSE Len(s) + 1

\* /<\/?[^>]+(>|$)/ matches at index m of s: a "<" followed by at least one
\* character other than ">" (the optional "/" is such a character).
MatchesAt(s, m) == s[m] = "<" /\ m + 1 <= Len(s) /\ s[m + 1] # ">"

\* The index at which the first match at or after i starts, Len(s) + 1 when
\* there is none.
NextMatch(s, i) ==
    IF \E m \in i..Len(s) : MatchesAt(s, m)
    THEN CHOOSE m \in i..Len(s) :
             MatchesAt(s, m) /\ \A n \in i..(m - 1) : ~MatchesAt(s, n)
    ELSE Len(s) + 1

\* The last index of the match that starts at m: [^>]+ runs up to the next
\* ">", which ends the match, or to the end of the input.
MatchEnd(s, m) ==
    IF NextGt(s, m + 1) > Len(s) THEN Len(s) ELSE NextGt(s, m + 1)

\* input.replace(/<\/?[^>]+(>|$)/g, "") from index i on: the text up to the
\* next match is kept, the match dropped, and the search resumes after it.
RECURSIVE ReplaceTags(_, _)
ReplaceTags(s, i) ==
    LET m == NextMatch(s, i)
    IN  IF m > Len(s) THEN SubSeq(s, i, Len(s))
        ELSE SubSeq(s, i, m - 1) \o ReplaceTags(s, MatchEnd(s, m) + 1)

\* sanitizeInput with trim() applied before replace().
sanitizeInputTrimFirst(input) == ReplaceTags(Trim(input), 1)

\* sanitizeInput(input): input.replace(/<\/?[^>]+(>|$)/g, "").trim()
sanitizeInput(input) == Trim(ReplaceTags(input, 1))

\* validateInput without its test of the empty input.
validateInputLengthOnly(input) ==
    IF Len(input) > MaxInputLength THEN FALSE
    ELSE TRUE

\* validateInput(input): whether the input passes.
validateInput(input) ==
    IF Len(input) = 0 THEN FALSE
    ELSE IF Len(input) > MaxInputLength THEN FALSE
    ELSE TRUE

(***************************************************************************)
(* Model validation of TodoItem.                                           *)
(***************************************************************************)
\* [Required]: a string that is empty or only white space, as .NET knows
\* it, is refused.
RequiredIsValid(title) == \E i \in 1..Len(title) : title[i] \notin NetWhiteSpace

\* StringLengthIsValid with the bound excluded (an off-by-one comparison).
StringLengthIsValidExclusive(title) == Len(title) < MaxTitleLength

\* [StringLength(100)]: the length of the string as received.
StringLengthIsValid(title) == Len(title) <= MaxTitleLength

ModelStateIsValid(item) ==
    RequiredIsValid(item.Title) /\ StringLengthIsValid(item.Title)

(***************************************************************************)
(* Requests.                                                               *)
(***************************************************************************)
\* The titles a POST body carries.
Titles ==
    { <<>>,
      <<" ", "\t", "U+00A0">>,
      <<"U+0085">>,
      <<"U+FEFF">>,
      <<" ", "a", " ">>,
      <<"<", "b", ">", "<", "/", "b", ">">>,
      Rep("a", MaxTitleLength),
      Rep("a", MaxTitleLength + 1),
      <<" ">> \o Rep("a", MaxTitleLength) }

\* The ids a path or a body carries; 0 is the default of TodoItem.Id and
\* TodoDto.Id, the value of a body without an id.
Ids == 0..MaxId

TodoItems == [Id : Ids, Title : Titles, IsCompleted : BOOLEAN]

TodoDtos == [Id : Ids, IsCompleted : BOOLEAN]

(***************************************************************************)
(* The TodoItems table of the in-memory database.  The rows are held in a  *)
(* hash table keyed by Id: entries is its array of slots, freeList the     *)
(* stack of the slots freed by removals (the last freed first).  The Id    *)
(* generator of the table is made by the provider when a value is first    *)
(* asked of it: generator tells whether it exists, and current is its last *)
(* value, 0 as long as it does not exist.  No file of the repository names *)
(* the version of the provider: one provider asks for the generator at the *)
(* first Add, whatever Id the item carries, before a row can be in the     *)
(* table, so that it has the generator from the start; another asks at the *)
(* first Add of an item whose Id is the default 0.                         *)
(*                                                                         *)
(* table is the TodoItems table, response the answer to the last request   *)
(* made of the API directly; removed records the ids whose row was removed *)
(* by such a request and that are not in the table (history).              *)
(*                                                                         *)
(* todos, title and error are the state of App; inflight is the bag of its *)
(* requests on their way to the server or back; failed records whether a   *)
(* request of the view has failed (history).                               *)
(***************************************************************************)
VARIABLES table, response, removed, todos, title, error, inflight, failed

vars == <<table, response, removed, todos, title, error, inflight, failed>>

\* The state of the view and of its requests.
viewVars == <<todos, title, error, inflight, failed>>

\* error when no message is displayed (null).
NoError == "null"

\* The empty table of a provider whose generator exists from the first Add,
\* and of one that makes it at the first Add of an item without id.
EmptyTables ==
    {[entries |-> <<>>, freeList |-> <<>>, generator |-> g, current |-> 0] :
         g \in BOOLEAN}

FreeSlot == [live |-> FALSE, row |-> [Id |-> 0, Title |-> <<>>, IsCompleted |-> FALSE]]

LiveSlot(r) == [live |-> TRUE, row |-> r]

\* The slot holding the row of key id, 0 when there is none.
SlotOf(t, id) ==
    IF \E i \in 1..Len(t.entries) : t.entries[i].live /\ t.entries[i].row.Id = id
    THEN CHOOSE i \in 1..Len(t.entries) :
             t.entries[i].live /\ t.entries[i].row.Id = id
    ELSE 0

\* _context.TodoItems.FindAsync(id) != null
Exists(t, id) == SlotOf(t, id) # 0

\* _context.TodoItems.FindAsync(id), for an id that exists
Find(t, id) == t.entries[SlotOf(t, id)].row

RECURSIVE RowsFrom(_, _)
RowsFrom(e, i) ==
    IF i > Len(e) THEN <<>>
    ELSE IF e[i].live THEN <<e[i].row>> \o RowsFrom(e, i + 1)
         ELSE RowsFrom(e, i + 1)

\* _context.TodoItems.ToListAsync(): the rows of the live slots, in slot order.
ToList(t) == RowsFrom(t.entries, 1)

LiveIds(t) ==
    {t.entries[i].row.Id : i \in {j \in 1..Len(t.entries) : t.entries[j].live}}

Response(op, status, body) == [op |-> op, status |-> status, body |-> body]

\* The API with an empty table and no view in front of it.
Init ==
    /\ table \in EmptyTables
    /\ response = Response("none", 0, <<>>)
    /\ removed = {}
    /\ todos = <<>>
    /\ title = <<>>
    /\ error = NoError
    /\ inflight = EmptyBag
    /\ failed = FALSE

(***************************************************************************)
(* Requests under way.  A request carries its method, the id of its path   *)
(* and its body as model binding reads it (a field the body lacks has its  *)
(* default).  Its stage is "sent" on its way to the server, "saving" while *)
(* its handler awaits SaveChangesAsync with entity tracked by its context  *)
(* ("orphan" when the caller has given the request up meanwhile), and      *)
(* "answered" once it carries the status of the answer and, for GET, the   *)
(* list.  Every request has a context of its own (AddDbContext), and the   *)
(* handlers of two requests run side by side: each meets the table when it *)
(* takes a key or looks a row up, and again when it saves.                 *)
(***************************************************************************)
NoBody == [Id |-> 0, Title |-> <<>>, IsCompleted |-> FALSE]

Request(method, id, body) ==
    [method |-> method, id |-> id, body |-> body,
     stage |-> "sent", entity |-> NoBody, status |-> 0, list |-> <<>>]

\* POST api/todo with body item
PostRequest(item) == Request("POST", 0, item)

\* PUT api/todo/{id} with body item
PutRequest(id, item) ==
    Request("PUT", id, [NoBody EXCEPT !.Id = item.Id, !.IsCompleted = item.IsCompleted])

\* DELETE api/todo/{id}
DeleteRequest(id) == Request("DELETE", id, NoBody)

\* The TodoDto the body of a PUT binds to.
TodoDtoOf(body) == [Id |-> body.Id, IsCompleted |-> body.IsCompleted]

\* The request m with its handler at the await of SaveChangesAsync.
Saving(m, entity) == [m EXCEPT !.stage = "saving", !.entity = entity]

\* The request m with its answer.
Answered(m, status, list) ==
    [m EXCEPT !.stage = "answered", !.status = status, !.list = list]

(***************************************************************************)
(* TodoService: what each call tracks, and the table after it has saved.   *)
(***************************************************************************)
\* The greatest of 0 and the numbers of ids.
MaxOf(ids) == CHOOSE n \in ids \cup {0} : \A k \in ids \cup {0} : k <= n

\* The last value of the generator when a value is asked of it: a generator
\* that is made then starts from the greatest key of the rows in the table.
Current(t) == IF t.generator THEN t.current ELSE MaxOf(LiveIds(t))

\* The key of a row added with item: the generator's next value when
\* item.Id is the default 0, item.Id itself otherwise.
KeyFor(t, item) == IF item.Id = 0 THEN Current(t) + 1 ELSE item.Id

\* The entity _context.TodoItems.Add(item) tracks.
RowFor(t, item) ==
    [Id |-> KeyFor(t, item), Title |-> item.Title, IsCompleted |-> item.IsCompleted]

\* The table after _context.TodoItems.Add(item): the generator has handed
\* out its next value to an item without id, and exists from then on.
Add(t, item) ==
    IF item.Id = 0
    THEN [t EXCEPT !.generator = TRUE, !.current = Current(t) + 1]
    ELSE t

\* SaveChangesAsync of an added entity whose key is not in the table: the
\* row takes the slot freed last, or a new slot at the end, and the
\* generator, when it exists, is raised to the key.
SaveAdded(t, entity) ==
    [entries |->
         IF t.freeList # <<>>
         THEN [t.entries EXCEPT ![Head(t.freeList)] = LiveSlot(entity)]
         ELSE Append(t.entries, LiveSlot(entity)),
     freeList |-> IF t.freeList # <<>> THEN Tail(t.freeList) ELSE t.freeList,
     generator |-> t.generator,
     current |-> IF t.generator /\ entity.Id > t.current THEN entity.Id
                 ELSE t.current]

\* UpdatedIsCompleted storing the value the request carries.
UpdatedIsCompletedAsRequested(existingTodo, item) == item.IsCompleted

\* The value TodoService.UpdateTodo stores in existingTodo.IsCompleted.
UpdatedIsCompleted(existingTodo, item) == ~existingTodo.IsCompleted

\* Of the entity TodoService.UpdateTodo(item) has changed when it awaits
\* SaveChangesAsync, for an item.Id that is in the table, what the save
\* uses: the key and the property that was modified.
UpdateTodoEntity(t, item) ==
    [NoBody EXCEPT !.Id = item.Id,
                   !.IsCompleted = UpdatedIsCompleted(Find(t, item.Id), item)]

\* Of the entity TodoService.DeleteTodoById(id) has removed when it awaits
\* SaveChangesAsync, what the save uses: the key.
DeleteTodoEntity(t, id) == [NoBody EXCEPT !.Id = Find(t, id).Id]

\* SaveModified saving every property of the entity, with the title that
\* the request does not carry.
SaveModifiedReplacingRow(t, entity) ==
    [t EXCEPT !.entries[SlotOf(t, entity.Id)].row =
                  [Id |-> entity.Id, Title |-> <<>>, IsCompleted |-> entity.IsCompleted]]

\* SaveChangesAsync of a modified entity whose key is in the table: the
\* property that was modified, IsCompleted, is written to the row of the key.
SaveModified(t, entity) ==
    [t EXCEPT !.entries[SlotOf(t, entity.Id)].row.IsCompleted = entity.IsCompleted]

\* SaveDeleted without the call of Remove.
SaveDeletedKeepingRow(t, entity) == t

\* SaveChangesAsync of a removed entity whose key is in the table.
SaveDeleted(t, entity) ==
    [t EXCEPT !.entries[SlotOf(t, entity.Id)] = FreeSlot,
              !.freeList = <<SlotOf(t, entity.Id)>> \o t.freeList]

\* SaveChangesAsync throws: the key of an added entity is in the table, or
\* the key of a modified or removed entity is not.
SaveChangesThrows(t, m) ==
    IF m.method = "POST" THEN Exists(t, m.entity.Id) ELSE ~Exists(t, m.entity.Id)

\* The table after SaveChangesAsync in the handler of m.
SaveChanges(t, m) ==
    IF SaveChangesThrows(t, m) THEN t
    ELSE CASE m.method = "POST" -> SaveAdded(t, m.entity)
           [] m.method = "PUT" -> SaveModified(t, m.entity)
           [] m.method = "DELETE" -> SaveDeleted(t, m.entity)

(***************************************************************************)
(* TodoController: a handler up to its answer or to its await of           *)
(* SaveChangesAsync, and from there to its answer.                         *)
(***************************************************************************)
\* GET api/todo: the answer.
GetTodosResponse(t) == Response("GET", 200, ToList(t))

\* PutTodoItemStatus without the test of UpdateTodo's result for null.
PutTodoItemStatusNoNullCheck(t, id, item) ==
    IF id # item.Id THEN 400 ELSE 200

\* PutTodoItemStatus without the comparison of the path id with the body id.
PutTodoItemStatusNoIdCheck(t, id, item) ==
    IF ~Exists(t, item.Id) THEN 404 ELSE 200

\* PutTodoItemStatus with the lookup of the item made before the comparison
\* of the path id with the body id.
PutTodoItemStatusLookupFirst(t, id, item) ==
    IF ~Exists(t, item.Id) THEN 404
    ELSE IF id # item.Id THEN 400
    ELSE 200

\* The status of PUT api/todo/{id} with item when its save does not throw.
PutTodoItemStatus(t, id, item) ==
    IF id # item.Id THEN 400
    ELSE IF ~Exists(t, item.Id) THEN 404
    ELSE 200

\* The status of DELETE api/todo/{id} when its save does not throw:
\* NoContent, found or not.
DeleteTodoStatus(t, id) == 204

\* The status of the answer to m when SaveChangesAsync has returned.
SuccessStatus(t, m) ==
    CASE m.method = "POST" -> 201
      [] m.method = "PUT" -> 200
      [] m.method = "DELETE" -> DeleteTodoStatus(t, m.id)

\* Request m once its handler has run on table t to its answer, or to its
\* await of SaveChangesAsync; Add has then set the Id of the item of a POST,
\* which is the entity, to the key.
Handled(t, m) ==
    CASE m.method = "GET" ->
             Answered(m, GetTodosResponse(t).status, GetTodosResponse(t).body)
      [] m.method = "POST" ->
             IF ~ModelStateIsValid(m.body) THEN Answered(m, 400, <<>>)
             ELSE Saving([m EXCEPT !.body = RowFor(t, m.body)], RowFor(t, m.body))
      [] m.method = "PUT" ->
             IF PutTodoItemStatus(t, m.id, TodoDtoOf(m.body)) # 200
             THEN Answered(m, PutTodoItemStatus(t, m.id, TodoDtoOf(m.body)), <<>>)
             ELSE Saving(m, UpdateTodoEntity(t, TodoDtoOf(m.body)))
      [] m.method = "DELETE" ->
             IF ~Exists(t, m.id) THEN Answered(m, DeleteTodoStatus(t, m.id), <<>>)
             ELSE Saving(m, DeleteTodoEntity(t, m.id))

\* The table once the handler of m has run that far.
HandledTable(t, m) ==
    IF m.method = "POST" /\ ModelStateIsValid(m.body) THEN Add(t, m.body) ELSE t

\* Request m, at its await of SaveChangesAsync, once its handler has run on
\* table t to its answer: 500 when the save throws.
Saved(t, m) ==
    Answered(m, IF SaveChangesThrows(t, m) THEN 500 ELSE SuccessStatus(t, m), <<>>)

\* Request m as answered when no other request meets the table between the
\* two parts of its handler.
Served(t, m) ==
    LET h == Handled(t, m)
    IN  IF h.stage = "answered" THEN h ELSE Saved(HandledTable(t, m), h)

\* The table after the handler of m, likewise.
ServedTable(t, m) ==
    LET h == Handled(t, m)
    IN  IF h.stage = "answered" THEN HandledTable(t, m)
        ELSE SaveChanges(HandledTable(t, m), h)

\* The status the controller answers request m with, likewise.
ServedStatus(t, m) == Served(t, m).status

\* TodoService.AddTodo(item) with no other request between Add and the
\* save, for a key that is not in the table.
ServiceAddTodo(t, item) == SaveAdded(Add(t, item), RowFor(t, item))

\* TodoService.UpdateTodo(item), likewise.
ServiceUpdateTodo(t, item) ==
    IF Exists(t, item.Id) THEN SaveModified(t, UpdateTodoEntity(t, item)) ELSE t

\* TodoService.DeleteTodoById(id), likewise.
ServiceDeleteTodoById(t, id) ==
    IF Exists(t, id) THEN SaveDeleted(t, DeleteTodoEntity(t, id)) ELSE t

\* The status of POST api/todo with item, likewise: 400 when the model state
\* is invalid, 500 when saving throws on a key that is already in the table,
\* 201 otherwise.
AddTodoStatus(t, item) == ServedStatus(t, PostRequest(item))

\* The table after POST api/todo with item, likewise.
AddTodoTable(t, item) == ServedTable(t, PostRequest(item))

\* The table after PUT api/todo/{id} with item, likewise.
PutTodoItemTable(t, id, item) == ServedTable(t, PutRequest(id, item))

\* The table after DELETE api/todo/{id}, likewise.
DeleteTodoTable(t, id) == ServedTable(t, DeleteRequest(id))

\* The answer to request m as the caller of the API sees it: a 201 carries
\* the item created.
ResponseTo(m) ==
    Response(m.method, m.status,
             IF m.method = "GET" THEN m.list
             ELSE IF m.status = 201 THEN <<m.entity>> ELSE <<>>)

(***************************************************************************)
(* The requests made of the API directly.                                  *)
(***************************************************************************)
\* The handlers at their await of SaveChangesAsync.
SavingIn(b) ==
    BagCardinality([m \in {x \in BagToSet(b) : x.stage \in {"saving", "orphan"}}
                       |-> b[m]])

\* removed after SaveChangesAsync in the handler of m on table t.
RemovedAfter(r, t, m) ==
    IF SaveChangesThrows(t, m) THEN r
    ELSE IF m.method = "DELETE" THEN r \cup {m.entity.Id}
    ELSE IF m.method = "POST" THEN r \ {m.entity.Id}
    ELSE r

\* The controller receives m and its handler runs: to its answer, or, with
\* a save to make, to its await of SaveChangesAsync.
Receive(m) ==
    LET h == Handled(table, m)
        t == HandledTable(table, m)
    IN  /\ \/ /\ h.stage = "answered"
              /\ table' = t
              /\ response' = ResponseTo(h)
              /\ UNCHANGED <<removed, inflight>>
           \/ /\ h.stage = "saving"
              /\ table' = SaveChanges(t, h)
              /\ response' = ResponseTo(Saved(t, h))
              /\ removed' = RemovedAfter(removed, t, h)
              /\ UNCHANGED inflight
           \/ /\ h.stage = "saving"
              /\ SavingIn(inflight) < MaxSaving
              /\ table' = t
              /\ inflight' = inflight (+) SetToBag({h})
              /\ UNCHANGED <<response, removed>>
        /\ UNCHANGED <<todos, title, error, failed>>

\* GET api/todo
GetTodos == Receive(Request("GET", 0, NoBody))

\* POST api/todo
AddTodo(item) ==
    /\ KeyFor(table, item) <= MaxId
    /\ Receive(PostRequest(item))

\* PUT api/todo/{id}
PutTodoItem(id, item) == Receive(PutRequest(id, item))

\* DELETE api/todo/{id}
DeleteTodo(id) == Receive(DeleteRequest(id))

\* SaveChangesAsync returns or throws in the handler of m, and the handler
\* answers.
SaveChangesAsync(m) ==
    /\ m.stage = "saving"
    /\ table' = SaveChanges(table, m)
    /\ response' = ResponseTo(Saved(table, m))
    /\ inflight' = inflight (-) SetToBag({m})
    /\ removed' = RemovedAfter(removed, table, m)
    /\ UNCHANGED <<todos, title, error, failed>>

Next ==
    \/ GetTodos
    \/ \E item \in TodoItems : AddTodo(item)
    \/ \E id \in Ids, item \in TodoDtos : PutTodoItem(id, item)
    \/ \E id \in Ids : DeleteTodo(id)
    \/ \E m \in BagToSet(inflight) : SaveChangesAsync(m)

Spec == Init /\ [][Next]_vars

(***************************************************************************)
(* todoService: the requests of the view.                                  *)
(***************************************************************************)
\* getTodos(): fetch(API_URL)
getTodos == Request("GET", 0, NoBody)

\* createTodo(title) returns at once, without a request, for a blank title.
createTodoSends(t) == Trim(t) # <<>>

\* createTodo(title): POST with body { title }
createTodo(t) == Request("POST", 0, [NoBody EXCEPT !.Title = t])

\* toggleTodo with the body { id, isCompleted }: the displayed value sent as
\* it is.
toggleTodoDisplayedValue(id, isCompleted) ==
    Request("PUT", id, [NoBody EXCEPT !.Id = id, !.IsCompleted = isCompleted])

\* toggleTodo(id, isCompleted): PUT with body { id, isCompleted: !isCompleted }
toggleTodo(id, isCompleted) ==
    Request("PUT", id, [NoBody EXCEPT !.Id = id, !.IsCompleted = ~isCompleted])

\* deleteTodo(id): DELETE
deleteTodo(id) == Request("DELETE", id, NoBody)

\* response.ok
ResponseOk(m) == m.status \in 200..299

\* The message of the Error a service function throws on a response that is
\* not ok.
ServiceError(method) ==
    CASE method = "GET" -> "Failed to fetch todos"
      [] method = "POST" -> "Failed to add todo"
      [] method = "PUT" -> "Failed to update todo"
      [] method = "DELETE" -> "Failed to delete todo"

\* The messages of the TypeError a service call rejects with on a network
\* failure, at await fetch or, in getTodos, at await response.json().  The
\* wording is the platform's: that of Chromium, that of Node before the
\* answer, and that of Node while the body of the answer arrives; other
\* platforms have wordings of their own.
NetworkErrors == {"Failed to fetch", "fetch failed", "terminated"}

\* The message of the error the service call throws on the answer m, NoError
\* when it returns.
Rejection(m) == IF ResponseOk(m) THEN NoError ELSE ServiceError(m.method)

(***************************************************************************)
(* App: the handlers of the view.  A handler runs up to its await, which   *)
(* leaves a request in flight, and goes on when the request settles: err   *)
(* is the message of the error the service call throws, NoError when the   *)
(* call returns.                                                           *)
(***************************************************************************)
\* The values of the title input the model enumerates: empty, a title, a
\* title of tags only, and a title of one character that is white space to
\* the server and not to trim.
Drafts ==
    {t \in {<<>>, <<"a">>, <<"<", "b", ">", "<", "/", "b", ">">>, <<"U+0085">>} :
        Len(t) <= MaxLength}

\* error after validateInput(input)
validateInputError(input, e) ==
    IF Len(input) = 0 THEN "Todo title cannot be empty."
    ELSE IF Len(input) > MaxInputLength
         THEN "Todo title cannot be longer than 100 characters."
         ELSE e

\* addTodo with title tl reaches its call of createTodo.
addTodoCreates(tl) == Trim(tl) # <<>> /\ validateInput(sanitizeInput(tl))

\* error after the part of addTodo that runs at the click.
addTodoError(tl, e) ==
    IF Trim(tl) # <<>> THEN validateInputError(sanitizeInput(tl), e)
    ELSE "title is required"

\* TodosAfter with the deleted item taken out of todos when deleteTodo
\* returns (an optimistic local update).
TodosAfterOptimistic(ts, m, err) ==
    IF err = NoError /\ m.method = "GET" THEN m.list
    ELSE IF err = NoError /\ m.method = "DELETE"
         THEN SelectSeq(ts, LAMBDA r : r.Id # m.id)
         ELSE ts

\* todos once the call that awaits m has settled: setTodos in
\* fetchTodosFromService.
TodosAfter(ts, m, err) ==
    IF err = NoError /\ m.method = "GET" THEN m.list ELSE ts

\* TitleAfter with setTitle('') in toggletodo as well.
TitleAfterClearingOnToggle(tl, m, err) ==
    IF err = NoError /\ m.method \in {"POST", "DELETE", "PUT"} THEN <<>> ELSE tl

\* title once the call has settled: setTitle('') in addTodo and deletetodo.
TitleAfter(tl, m, err) ==
    IF err = NoError /\ m.method \in {"POST", "DELETE"} THEN <<>> ELSE tl

\* ErrorAfter with setError(null) when the call returns.
ErrorAfterClearing(e, m, err) == err

\* error once the call has settled: setError(err.message) in the catch.
ErrorAfter(e, m, err) == IF err = NoError THEN e ELSE err

\* InflightAfter with toggletodo not going on to fetchTodosFromService().
InflightAfterNoRefetchOfToggle(b, m, err) ==
    IF err = NoError /\ m.method \notin {"GET", "PUT"}
    THEN (b (-) SetToBag({m})) (+) SetToBag({getTodos})
    ELSE b (-) SetToBag({m})

\* InflightAfter with fetchTodosFromService() called whether the call
\* returned or threw (the call moved behind the try statement).
InflightAfterRefetchAlways(b, m, err) ==
    IF m.method # "GET"
    THEN (b (-) SetToBag({m})) (+) SetToBag({getTodos})
    ELSE b (-) SetToBag({m})

\* The requests in flight once the call has settled: addTodo, deletetodo and
\* toggletodo go on to fetchTodosFromService().
InflightAfter(b, m, err) ==
    IF err = NoError /\ m.method # "GET"
    THEN (b (-) SetToBag({m})) (+) SetToBag({getTodos})
    ELSE b (-) SetToBag({m})

\* The number of POST requests on their way to the server.
PostsSent(b) ==
    BagCardinality([m \in {x \in BagToSet(b) : x.method = "POST" /\ x.stage = "sent"}
                       |-> b[m]])

\* The view as mounted on an empty table: useEffect has called
\* fetchTodosFromService.
ViewInit ==
    /\ table \in EmptyTables
    /\ response = Response("none", 0, <<>>)
    /\ removed = {}
    /\ todos = <<>>
    /\ title = <<>>
    /\ error = NoError
    /\ inflight = SetToBag({getTodos})
    /\ failed = FALSE

\* onChange of the title input
onChange(value) ==
    /\ error' = NoError
    /\ title' = value
    /\ UNCHANGED <<todos, inflight, failed, table, response, removed>>

\* addTodo, up to its await
addTodo ==
    /\ error' = addTodoError(title, error)
    /\ IF addTodoCreates(title)
       THEN IF createTodoSends(sanitizeInput(title))
            THEN /\ BagCardinality(inflight) < MaxInFlight
                 /\ Current(table) + PostsSent(inflight) < MaxId
                 /\ inflight' = inflight (+) SetToBag({createTodo(sanitizeInput(title))})
                 /\ title' = title
            ELSE /\ BagCardinality(inflight) < MaxInFlight
                 /\ inflight' = inflight (+) SetToBag({getTodos})
                 /\ title' = <<>>
       ELSE UNCHANGED <<inflight, title>>
    /\ UNCHANGED <<todos, failed, table, response, removed>>

\* deletetodo(id), up to its await
deletetodo(id) ==
    /\ BagCardinality(inflight) < MaxInFlight
    /\ inflight' = inflight (+) SetToBag({deleteTodo(id)})
    /\ UNCHANGED <<todos, title, error, failed, table, response, removed>>

\* toggletodo(id, isCompleted), up to its await
toggletodo(id, isCompleted) ==
    /\ BagCardinality(inflight) < MaxInFlight
    /\ inflight' = inflight (+) SetToBag({toggleTodo(id, isCompleted)})
    /\ UNCHANGED <<todos, title, error, failed, table, response, removed>>

\* The server receives request m and its handler runs: to its answer, or,
\* with a save to make, to its await of SaveChangesAsync.
Serve(m) ==
    LET h == Handled(table, m)
        t == HandledTable(table, m)
    IN  /\ m.stage = "sent"
        /\ \/ /\ h.stage = "answered"
              /\ table' = t
              /\ inflight' = (inflight (-) SetToBag({m})) (+) SetToBag({h})
           \/ /\ h.stage = "saving"
              /\ table' = SaveChanges(t, h)
              /\ inflight' = (inflight (-) SetToBag({m})) (+) SetToBag({Saved(t, h)})
           \/ /\ h.stage = "saving"
              /\ SavingIn(inflight) < MaxSaving
              /\ table' = t
              /\ inflight' = (inflight (-) SetToBag({m})) (+) SetToBag({h})
        /\ UNCHANGED <<todos, title, error, failed, response, removed>>

\* SaveChangesAsync returns or throws in the handler of m, and the handler
\* answers; the answer to a request the view has given up goes nowhere.
ServeSaveChanges(m) ==
    /\ m.stage \in {"saving", "orphan"}
    /\ table' = SaveChanges(table, m)
    /\ inflight' = IF m.stage = "saving"
                   THEN (inflight (-) SetToBag({m})) (+) SetToBag({Saved(table, m)})
                   ELSE inflight (-) SetToBag({m})
    /\ UNCHANGED <<todos, title, error, failed, response, removed>>

\* What a request leaves behind when the call that awaits it settles: its
\* handler, when the server runs it, goes on to its save.
Orphaned(m) ==
    IF m.stage = "saving" THEN SetToBag({[m EXCEPT !.stage = "orphan"]})
    ELSE EmptyBag

\* The call that awaits m settles with err and its handler goes on.
Settle(m, err) ==
    /\ todos' = TodosAfter(todos, m, err)
    /\ title' = TitleAfter(title, m, err)
    /\ error' = ErrorAfter(error, m, err)
    /\ inflight' = InflightAfter(inflight, m, err) (+) Orphaned(m)
    /\ failed' = (failed \/ err # NoError)
    /\ UNCHANGED <<table, response, removed>>

\* The answer to m arrives.
ReceiveResponse(m) ==
    /\ m.stage = "answered"
    /\ Settle(m, Rejection(m))

\* The request m or its answer is lost, or the connection while the server
\* handles m: fetch rejects.
NetworkFailure(m) ==
    /\ m.stage # "orphan"
    /\ \E err \in NetworkErrors : Settle(m, err)

ViewNext ==
    \/ \E value \in Drafts : onChange(value)
    \/ addTodo
    \/ \E k \in 1..Len(todos) : deletetodo(todos[k].Id)
    \/ \E k \in 1..Len(todos) : toggletodo(todos[k].Id, todos[k].IsCompleted)
    \/ \E m \in BagToSet(inflight) : Serve(m)
    \/ \E m \in BagToSet(inflight) : ServeSaveChanges(m)
    \/ \E m \in BagToSet(inflight) : ReceiveResponse(m)
    \/ \E m \in BagToSet(inflight) : NetworkFailure(m)

\* One view and the server, and no other writer.
ViewSpec == ViewInit /\ [][ViewNext]_vars

\* No call of the view awaits a request: what is under way is a handler
\* whose request the view has given up.
NothingAwaited == \A m \in BagToSet(inflight) : m.stage = "orphan"

\* The view used strictly in sequence: the user presses Add, Delete or
\* Toggle only when no request is in flight.
SequentialNext ==
    \/ \E value \in Drafts : onChange(value)
    \/ NothingAwaited /\ addTodo
    \/ NothingAwaited /\ \E k \in 1..Len(todos) : deletetodo(todos[k].Id)
    \/ NothingAwaited
           /\ \E k \in 1..Len(todos) : toggletodo(todos[k].Id, todos[k].IsCompleted)
    \/ \E m \in BagToSet(inflight) : Serve(m)
    \/ \E m \in BagToSet(inflight) : ServeSaveChanges(m)
    \/ \E m \in BagToSet(inflight) : ReceiveResponse(m)
    \/ \E m \in BagToSet(inflight) : NetworkFailure(m)

SequentialSpec == ViewInit /\ [][SequentialNext]_vars

(***************************************************************************)
(* The Add button on every value of the title input up to a length: the    *)
(* view has fetched the list of an empty table, the user has entered a     *)
(* title and presses Add.                                                  *)
(***************************************************************************)
\* The characters of the enumerated values: those the pattern and trim tell
\* apart (two of the white space characters), and one other.
Alphabet == {"<", ">", " ", "\t", "a"}

BuyMilk ==
    <<"<", "b", ">", "B", "u", "y", " ", "m", "i", "l", "k", "<", "/", "b", ">">>

\* The values of e.target.value enumerated.
Inputs == UNION {[1..n -> Alphabet] : n \in 0..MaxTyped} \cup {BuyMilk}

AddInit ==
    /\ table \in EmptyTables
    /\ response = Response("none", 0, <<>>)
    /\ removed = {}
    /\ todos = <<>>
    /\ title \in Inputs
    /\ error = NoError
    /\ inflight = EmptyBag
    /\ failed = FALSE

AddNext == addTodo

AddSpec == AddInit /\ [][AddNext]_vars

(***************************************************************************)
(* Properties.  An invariant below speaks of every table the requests can  *)
(* produce and of every request that can reach it.                         *)
(***************************************************************************)
\* The items of a list.
Items(list) == {list[k] : k \in 1..Len(list)}

\* The items GET api/todo returns from table t.
Listed(t) == Items(GetTodosResponse(t).body)

\* The step is PUT api/todo/{id} with body item, handled to its answer.
IsPut(id, item) ==
    response'.op = "PUT" /\ inflight' = inflight /\ PutTodoItem(id, item)

\* The step is POST api/todo with body item, handled to its answer.
IsPost(item) ==
    response'.op = "POST" /\ inflight' = inflight /\ AddTodo(item)

\* The step is DELETE api/todo/{id}, handled to its answer.
IsDelete(id) ==
    response'.op = "DELETE" /\ inflight' = inflight /\ DeleteTodo(id)

\* The handlers of method that await SaveChangesAsync.
SavingOf(method) ==
    {m \in BagToSet(inflight) : m.method = method /\ m.stage \in {"saving", "orphan"}}

\* C1: after a successful PUT api/todo/{id} with body {id, isCompleted: v}
\* the stored item's isCompleted equals v, whatever it was before.
C1_ToggleStoresRequestedValue ==
    [][\A id \in Ids, v \in BOOLEAN :
          (IsPut(id, [Id |-> id, IsCompleted |-> v]) /\ response'.status = 200)
              => Find(table', id).IsCompleted = v]_vars

\* C2: a PUT api/todo/{id} of a known id that is answered 200 changes the
\* stored isCompleted to the negation of its previous value, whatever value
\* the body carries, and the GET api/todo that follows is answered 200 with
\* that item carrying the new value.
C2_ToggleNegatesStoredValue ==
    [][/\ \A id \in Ids, item \in TodoDtos :
            (IsPut(id, item) /\ response'.status = 200)
                => /\ Exists(table, id) /\ Exists(table', id)
                   /\ Find(table', id).IsCompleted = ~Find(table, id).IsCompleted
                   /\ GetTodosResponse(table').status = 200
                   /\ [Find(table, id) EXCEPT !.IsCompleted = ~@] \in Listed(table')
       /\ \A m \in SavingOf("PUT") :
            (SaveChangesAsync(m) /\ response'.status = 200)
                => /\ Exists(table, m.id) /\ Exists(table', m.id)
                   /\ Find(table', m.id).IsCompleted = ~Find(table, m.id).IsCompleted
                   /\ [Find(table, m.id) EXCEPT !.IsCompleted = ~@]
                          \in Listed(table')]_vars

\* C3: PUT api/todo/{id} with the body id equal to the path id, for an id
\* that is not in the table, is answered 404 and leaves the table unchanged.
C3_ToggleUnknownIdIs404 ==
    \A id \in Ids, v \in BOOLEAN :
        LET item == [Id |-> id, IsCompleted |-> v]
            m == PutRequest(id, item)
        IN  ~Exists(table, id)
                => /\ PutTodoItemStatus(table, id, item) = 404
                   /\ Handled(table, m) = Answered(m, 404, <<>>)
                   /\ HandledTable(table, m) = table
                   /\ PutTodoItemTable(table, id, item) = table

\* A PUT was answered 404 while the table holds an item and an id has been
\* removed.
C3_Witness ==
    /\ response.op = "PUT"
    /\ response.status = 404
    /\ removed # {}
    /\ LiveIds(table) # {}

\* C4: PUT api/todo/{id} with a body id other than the path id is answered
\* 400 and leaves the table unchanged.
C4_ToggleIdMismatchIs400 ==
    \A id \in Ids, item \in TodoDtos :
        LET m == PutRequest(id, item)
        IN  id # item.Id
                => /\ PutTodoItemStatus(table, id, item) = 400
                   /\ Handled(table, m) = Answered(m, 400, <<>>)
                   /\ HandledTable(table, m) = table
                   /\ PutTodoItemTable(table, id, item) = table

\* A PUT was answered 400 while the table holds two items, so that both the
\* path id and the body id can name an item.
C4_Witness ==
    /\ response.op = "PUT"
    /\ response.status = 400
    /\ Cardinality(LiveIds(table)) >= 2

\* C5: after DELETE api/todo/{id} of a known id the id is never in the table
\* again, also after later creates, and the delete leaves every other item
\* as it was.
C5_DeletedIdNeverListedAgain ==
    [][/\ \A id \in removed : ~Exists(table', id)
       /\ \A id \in LiveIds(table) :
            IsDelete(id)
                => /\ ~Exists(table', id)
                   /\ \A o \in LiveIds(table) \ {id} :
                        Exists(table', o) /\ Find(table', o) = Find(table, o)]_vars

\* C6: DELETE api/todo/{id} is answered 204 whether or not the id is in the
\* table, leaves the table unchanged when it is not, and the same DELETE
\* again is answered 204 and changes nothing more.
C6_DeleteIsIdempotent ==
    [][/\ \A id \in Ids :
            IsDelete(id)
                => /\ response'.status = 204
                   /\ ~Exists(table, id) => table' = table
                   /\ ~Exists(table', id)
                   /\ DeleteTodoTable(table', id) = table'
       /\ \A m \in SavingOf("DELETE") :
            SaveChangesAsync(m)
                => /\ response'.status = 204
                   /\ ~Exists(table, m.id) => table' = table
                   /\ ~Exists(table', m.id)]_vars

\* C7: for every title t with 1 <= len(trim(t)) <= 100, a create of t (a
\* body with the title alone) is answered 201 and the list then holds an
\* item whose title is the trimmed t and whose isCompleted is false.
C7_CreateStoresTrimmedTitle ==
    [][\A item \in TodoItems :
          (/\ item.Id = 0
           /\ ~item.IsCompleted
           /\ Len(Trim(item.Title)) \in 1..100
           /\ IsPost(item))
              => /\ response'.status = 201
                 /\ \E r \in Listed(table') :
                       r.Title = Trim(item.Title) /\ ~r.IsCompleted]_vars

\* C8: POST api/todo is answered 400, the table unchanged, for every title
\* whose sanitized form is empty.
C8_ServerRejectsSanitizedEmpty ==
    [][\A item \in TodoItems :
          (sanitizeInput(item.Title) = <<>> /\ IsPost(item))
              => response'.status = 400 /\ table' = table]_vars

\* C9: validateInput passes an input of 100 characters and refuses one of
\* 101; POST api/todo with a title of 101 characters is answered 400 and adds
\* nothing to the table; with a title of 100 characters that is not blank it
\* is never answered 400 and goes on to its save under that title; the title
\* alone in the body (no id), with no other request between Add and the
\* save, is answered 201; and a save that does not throw stores the item
\* under that title.
C9_LengthBoundary ==
    /\ \A t \in Titles :
         /\ Len(t) = 100 => validateInput(t)
         /\ Len(t) = 101 => ~validateInput(t)
    /\ \A item \in TodoItems :
         LET after == AddTodoTable(table, item)
             m == PostRequest(item)
         IN  /\ Len(item.Title) = 101
                  => /\ Handled(table, m) = Answered(m, 400, <<>>)
                     /\ HandledTable(table, m) = table
                     /\ AddTodoStatus(table, item) = 400 /\ after = table
             /\ (Len(item.Title) = 100 /\ Trim(item.Title) # <<>>)
                  => /\ Handled(table, m).stage = "saving"
                     /\ Handled(table, m).entity.Title = item.Title
                     /\ AddTodoStatus(table, item) # 400
                     /\ item.Id = 0
                          => /\ AddTodoStatus(table, item) = 201
                             /\ Exists(after, KeyFor(table, item))
                             /\ Find(after, KeyFor(table, item)).Title = item.Title
    /\ \A m \in SavingOf("POST") :
         /\ Len(m.entity.Title) <= 100
         /\ ~SaveChangesThrows(table, m)
              => Find(SaveChanges(table, m), m.entity.Id).Title = m.entity.Title

\* A POST was answered 201 with an item whose title has 100 characters.
C9_Witness ==
    /\ response.op = "POST"
    /\ response.status = 201
    /\ Len(response.body[1].Title) = 100

\* C10: every stored title, after tag removal and trimming, has between 1
\* and 100 characters.
C10_StoredTitlesSanitizedNonEmpty ==
    \A r \in Listed(table) : Len(sanitizeInput(r.Title)) \in 1..100

\* C11: no two items of the table share an id; the first item created in an
\* empty, never used table gets id 1; every created item gets an id greater
\* than every id assigned before it (the last value of the generator, when
\* a value is asked of it, stands for the greatest of them); and the id of a
\* removed row is never assigned again.
C11_IdsFreshAndIncreasing ==
    [][/\ Cardinality(LiveIds(table')) = Len(ToList(table'))
       /\ \A item \in TodoItems :
            (IsPost(item) /\ response'.status = 201)
                => /\ table \in EmptyTables => response'.body[1].Id = 1
                   /\ response'.body[1].Id > Current(table)
                   /\ response'.body[1].Id \notin removed]_vars

\* C12: whatever id the body of a POST api/todo with a valid title carries,
\* the request creates an item under the next fresh id of the table; and no
\* request changes the id of a row the table holds.
C12_IdAssignedByStore ==
    [][/\ \A item \in TodoItems :
            (IsPost(item) /\ ModelStateIsValid(item))
                => /\ response'.status = 201
                   /\ response'.body[1].Id = Current(table) + 1
                   /\ Exists(table', Current(table) + 1)
       /\ \A i \in 1..Len(table.entries) :
            (table.entries[i].live /\ table'.entries[i].live)
                => table'.entries[i].row.Id = table.entries[i].row.Id]_vars

\* C13: PUT api/todo/{id} changes at most the isCompleted of the item with
\* that id: the list of the table holds the same ids in the same order as
\* before, that item with its id and title, and every other item with every
\* field as before.  This holds of the handler up to its save (which changes
\* nothing), of its save on the table as other requests have left it, and
\* of the two with no other request between.
C13_ToggleFrame ==
    /\ \A id \in Ids, item \in TodoDtos :
         LET before == ToList(table)
             after == ToList(PutTodoItemTable(table, id, item))
         IN  /\ HandledTable(table, PutRequest(id, item)) = table
             /\ Len(after) = Len(before)
             /\ \A k \in 1..Len(before) :
                  /\ after[k].Id = before[k].Id
                  /\ after[k].Title = before[k].Title
                  /\ before[k].Id # id => after[k] = before[k]
    /\ \A m \in SavingOf("PUT") :
         LET before == ToList(table)
             after == ToList(SaveChanges(table, m))
         IN  /\ m.entity.Id = m.id
             /\ Len(after) = Len(before)
             /\ \A k \in 1..Len(before) :
                  /\ after[k].Id = before[k].Id
                  /\ after[k].Title = before[k].Title
                  /\ before[k].Id # m.id => after[k] = before[k]

\* A PUT has succeeded on a table holding two items, one of them with a
\* title that is not empty after sanitization and one with a title that is.
C13_Witness ==
    /\ response.op = "PUT"
    /\ response.status = 200
    /\ \E r \in Listed(table) : sanitizeInput(r.Title) # <<>>
    /\ \E r \in Listed(table) : sanitizeInput(r.Title) = <<>>

\* C14: GET api/todo is answered 200 with the rows of the table, each once,
\* in the order of their creation: a created item comes last in the list,
\* behind the items listed before in their order, a delete takes one item
\* out of the list, and a toggle keeps the list's order.
C14_ListInCreationOrder ==
    [][/\ GetTodosResponse(table').status = 200
       /\ Items(GetTodosResponse(table').body) =
              {Find(table', id) : id \in LiveIds(table')}
       /\ Len(GetTodosResponse(table').body) = Cardinality(LiveIds(table'))
       /\ \A item \in TodoItems :
            (IsPost(item) /\ response'.status = 201)
                => ToList(table') = Append(ToList(table), response'.body[1])
       /\ \A id \in Ids :
            IsDelete(id)
                => ToList(table') =
                       SelectSeq(ToList(table), LAMBDA r : r.Id # id)
       /\ \A id \in Ids, item \in TodoDtos :
            IsPut(id, item)
                => [k \in 1..Len(ToList(table')) |-> ToList(table')[k].Id]
                       = [k \in 1..Len(ToList(table)) |-> ToList(table)[k].Id]]_vars

\* C19: every request is answered 200, 201, 204, 400 or 404.
C19_OnlyEnumeratedStatuses ==
    [][response'.status \in {200, 201, 204, 400, 404}]_vars

\* C15: when the answer to a create, toggle or delete request of the view
\* arrives and is a success, the view issues a GET api/todo and its error is
\* null, also when an error was displayed before.
C15_SuccessRefetchesAndClearsError ==
    [][\A m \in BagToSet(inflight) :
          (/\ m.method # "GET"
           /\ m.stage = "answered"
           /\ ResponseOk(m)
           /\ ReceiveResponse(m))
              => /\ CopiesIn(getTodos, inflight') = CopiesIn(getTodos, inflight) + 1
                 /\ error' = NoError]_vars

\* The statuses of an answer that is not a success.
FailureStatuses == {400, 404, 500}

\* C16: when a create, toggle or delete request of the view fails, by a
\* network failure or by an answer that is not 2xx, the handler leaves todos
\* and title as they are, takes the request out of flight without issuing a
\* GET or the request again, and sets error to the failure's message.
C16_FailureLeavesStateAndSetsError ==
    \A m \in BagToSet(inflight) :
        m.method # "GET"
            => /\ \A err \in NetworkErrors :
                    /\ TodosAfter(todos, m, err) = todos
                    /\ TitleAfter(title, m, err) = title
                    /\ InflightAfter(inflight, m, err)
                           = inflight (-) SetToBag({m})
                    /\ ErrorAfter(error, m, err) = err
               /\ \A status \in FailureStatuses :
                    LET a == [m EXCEPT !.stage = "answered", !.status = status]
                        b == (inflight (-) SetToBag({m})) (+) SetToBag({a})
                    IN  /\ Rejection(a) = ServiceError(m.method)
                        /\ Rejection(a) # NoError
                        /\ TodosAfter(todos, a, Rejection(a)) = todos
                        /\ TitleAfter(title, a, Rejection(a)) = title
                        /\ InflightAfter(b, a, Rejection(a))
                               = inflight (-) SetToBag({m})
                        /\ ErrorAfter(error, a, Rejection(a)) = Rejection(a)

\* The view shows the message of a toggle answered 404, with a list and a
\* draft title that are not empty and nothing in flight.
C16_Witness ==
    /\ failed
    /\ error = ServiceError("PUT")
    /\ todos # <<>>
    /\ title # <<>>
    /\ inflight = EmptyBag

\* C17: with one view and no other writer, once nothing is in flight and no
\* request has failed, todos is the list of the table.
C17_EventuallyConsistent ==
    (inflight = EmptyBag /\ ~failed) => todos = ToList(table)

\* C18: when the server handles a toggle request for an id in the table
\* while another toggle request for the same id, already handled, is still
\* in flight, the stored isCompleted becomes the value the request carries.
C18_LastToggleWins ==
    [][\A m, o \in BagToSet(inflight) :
          (/\ m.method = "PUT"
           /\ o.method = "PUT"
           /\ o.id = m.id
           /\ o.stage = "answered"
           /\ ResponseOk(o)
           /\ Exists(table, m.id)
           /\ Serve(m))
              => Find(table', m.id).IsCompleted = m.body.IsCompleted]_vars

\* Character i of s lies in a substring of the form "<" ... ">": between a
\* "<" at or before it and the first ">" behind that "<".
InTag(s, i) ==
    \E a \in 1..i : s[a] = "<" /\ NextGt(s, a) <= Len(s) /\ i <= NextGt(s, a)

\* s from index i on without its substrings of the form "<" ... ">".
RECURSIVE WithoutTags(_, _)
WithoutTags(s, i) ==
    IF i > Len(s) THEN <<>>
    ELSE IF InTag(s, i) THEN WithoutTags(s, i + 1)
         ELSE <<s[i]>> \o WithoutTags(s, i + 1)

\* s holds a substring of the form "<" ... ">".
HasTag(s) == \E i \in 1..Len(s) : s[i] = "<" /\ NextGt(s, i) <= Len(s)

\* C20: the sanitized title addTodo works with is the title without its
\* substrings of the form "<" ... ">", trimmed: the characters outside such
\* substrings are kept ("<b>Buy milk</b>" gives "Buy milk"), and the result
\* holds no such substring and no white space at either end.
C20_SanitizeRemovesExactlyTags ==
    [][addTodo
          => LET r == sanitizeInput(title)
             IN  /\ r = Trim(WithoutTags(title, 1))
                 /\ ~HasTag(r)
                 /\ r # <<>> => r[1] \notin Whitespace /\ r[Len(r)] \notin Whitespace
                 /\ addTodoCreates(title)
                      => BagIn(createTodo(Trim(WithoutTags(title, 1))), inflight')]_vars

\* The title of the scenario.
PlainBuyMilk == <<"B", "u", "y", " ", "m", "i", "l", "k">>

\* C21: with one view used in sequence, when nothing is in flight and
\* nothing has failed the list is the list of the table; and on a fresh
\* table, Add with the title "Buy milk" and its re-fetch make the list show
\* exactly one item, with id 1 and isCompleted false; Toggle on that item
\* (toggle(1, true)) and its re-fetch then make the list show it with
\* isCompleted true; Delete on it and its re-fetch then make the list empty.
C21_SequenceScenario ==
    /\ (inflight = EmptyBag /\ ~failed) => todos = ToList(table)
    /\ (inflight = EmptyBag /\ table \in EmptyTables)
         => LET create == createTodo(sanitizeInput(PlainBuyMilk))
                t1 == ServedTable(table, create)
                l1 == TodosAfter(todos, Served(t1, getTodos), NoError)
                toggle == toggleTodo(l1[1].Id, l1[1].IsCompleted)
                t2 == ServedTable(t1, toggle)
                l2 == TodosAfter(l1, Served(t2, getTodos), NoError)
                delete == deleteTodo(l2[1].Id)
                t3 == ServedTable(t2, delete)
                l3 == TodosAfter(l2, Served(t3, getTodos), NoError)
            IN  /\ addTodoCreates(PlainBuyMilk)
                /\ createTodoSends(sanitizeInput(PlainBuyMilk))
                /\ ResponseOk(Served(table, create))
                /\ l1 = <<[Id |-> 1, Title |-> PlainBuyMilk, IsCompleted |-> FALSE]>>
                /\ toggle.id = 1 /\ toggle.body.IsCompleted
                /\ ResponseOk(Served(t1, toggle))
                /\ l2 = <<[Id |-> 1, Title |-> PlainBuyMilk, IsCompleted |-> TRUE]>>
                /\ ResponseOk(Served(t2, delete))
                /\ l3 = <<>>

\* Used in sequence and without a failure, the view has created item 1 and
\* deleted it again: the list is empty and the title reset.
C21_Witness ==
    /\ inflight = EmptyBag
    /\ ~failed
    /\ table.current = 1
    /\ ~Exists(table, 1)
    /\ todos = <<>>
    /\ title = <<>>

\* C22: todos changes only when the answer to a GET api/todo arrives, and
\* is then the list of that answer; and the list of an answer is the list
\* of the table at the time the server handled the GET.
C22_NoOptimisticUpdate ==
    [][/\ todos' # todos
            => \E m \in BagToSet(inflight) :
                   /\ m.method = "GET"
                   /\ m.stage = "answered"
                   /\ ResponseOk(m)
                   /\ CopiesIn(m, inflight') < CopiesIn(m, inflight)
                   /\ todos' = m.list
       /\ \A m \in BagToSet(inflight') :
            (/\ m.method = "GET"
             /\ m.stage = "answered"
             /\ CopiesIn(m, inflight') > CopiesIn(m, inflight))
                => m.list = ToList(table) /\ table' = table]_vars

\* With nothing in flight the view shows a list that is not empty and that
\* the table has held, but holds no more.
C22_Witness ==
    /\ inflight = EmptyBag
    /\ todos # <<>>
    /\ todos # ToList(table)

\* C23: every PUT the view sends is for an item of the displayed list: the
\* id of its path and the id of its body are the id of the item, and the
\* isCompleted of its body is the negation of the value displayed for the
\* item when the button is pressed.
C23_ToggleCarriesNegatedDisplay ==
    [][\A m \in BagToSet(inflight') :
          (/\ m.method = "PUT"
           /\ m.stage = "sent"
           /\ CopiesIn(m, inflight') > CopiesIn(m, inflight))
              => \E k \in 1..Len(todos) :
                     /\ m.id = todos[k].Id
                     /\ m.body.Id = todos[k].Id
                     /\ m.body.IsCompleted = ~todos[k].IsCompleted]_vars

\* A PUT on its way asks for the value the table already holds: the value
\* displayed at the press was stale.
C23_Witness ==
    \E m \in BagToSet(inflight) :
        /\ m.method = "PUT"
        /\ m.stage = "sent"
        /\ Exists(table, m.id)
        /\ m.body.Id = m.id
        /\ Find(table, m.id).IsCompleted = m.body.IsCompleted

\* C24: pressing Add sends a POST exactly when the sanitized title has from
\* 1 to 100 characters, and the body of the POST carries the sanitized
\* title; otherwise no request is sent, an error message is set, and the
\* list and the title are left as they are.  The titles of more than 100
\* characters, which the input cannot hold, are covered on the test addTodo
\* makes.
C24_AddPostsIffSanitizedValid ==
    [][/\ LET s == sanitizeInput(title)
          IN  IF Len(s) >= 1 /\ Len(s) <= MaxInputLength
              THEN /\ inflight' = inflight (+) SetToBag({createTodo(s)})
                   /\ createTodo(s).method = "POST"
                   /\ createTodo(s).body.Title = s
              ELSE /\ inflight' = inflight
                   /\ error' # NoError
                   /\ todos' = todos
                   /\ title' = title
       /\ \A t \in Titles :
            /\ (addTodoCreates(t) /\ createTodoSends(sanitizeInput(t)))
                   <=> (/\ Len(sanitizeInput(t)) >= 1
                        /\ Len(sanitizeInput(t)) <= MaxInputLength)
            /\ ~addTodoCreates(t) => addTodoError(t, NoError) # NoError]_vars

\* Add was pressed on "<b>Buy milk</b>" and the POST on its way carries
\* "Buy milk".
C24_Witness ==
    /\ title = BuyMilk
    /\ \E m \in BagToSet(inflight) :
           m.method = "POST" /\ m.stage = "sent" /\ m.body.Title = PlainBuyMilk

\* C25: with the view used strictly in sequence, and as long as no request
\* has failed, the PUT of a toggle asks for the negation of the value the
\* table holds when the server handles it: it is answered 200, the table the
\* service produces is the table that storing the requested value would
\* produce, and once answered the stored value is the requested one.
C25_SequentialToggleStoresRequested ==
    ~failed =>
        \A m \in BagToSet(inflight) :
            m.method = "PUT" =>
                /\ Exists(table, m.id)
                /\ IF m.stage = "sent"
                   THEN LET existingTodo == Find(table, m.id)
                            item == TodoDtoOf(m.body)
                        IN  /\ item.IsCompleted = ~existingTodo.IsCompleted
                            /\ ServedStatus(table, m) = 200
                            /\ UpdatedIsCompleted(existingTodo, item)
                                   = UpdatedIsCompletedAsRequested(existingTodo, item)
                            /\ ServedTable(table, m)
                                   = [table EXCEPT
                                         !.entries[SlotOf(table, m.id)].row.IsCompleted =
                                             item.IsCompleted]
                   ELSE IF m.stage = "saving"
                   THEN /\ ~SaveChangesThrows(table, m)
                        /\ m.entity.Id = m.id
                        /\ m.entity.IsCompleted = m.body.IsCompleted
                        /\ SaveChanges(table, m)
                               = [table EXCEPT
                                     !.entries[SlotOf(table, m.id)].row.IsCompleted =
                                         m.body.IsCompleted]
                   ELSE /\ ResponseOk(m)
                        /\ Find(table, m.id).IsCompleted = m.body.IsCompleted

\* A second toggle of an item has been answered 200: the item is back to
\* not completed, as the request asked.
C25_Witness ==
    /\ ~failed
    /\ \E m \in BagToSet(inflight) :
           /\ m.method = "PUT"
           /\ m.stage = "answered"
           /\ ResponseOk(m)
           /\ ~m.body.IsCompleted
           /\ ~Find(table, m.id).IsCompleted

\* C26: error goes from a message to null only in a step that is onChange
\* of the title input; no press of a button and no settled request, ok or
\* failed, takes a message away.
C26_ErrorClearedOnlyByOnChange ==
    [][(error # NoError /\ error' = NoError)
           => /\ UNCHANGED <<todos, inflight, failed, table>>
              /\ title' \in Drafts
              /\ \E value \in Drafts : onChange(value)]_vars

\* The message of a refused Add is still displayed after a create that
\* succeeded and its re-fetch: the list shows the item, nothing is in flight
\* and nothing has failed.
C26_Witness ==
    /\ error = "Todo title cannot be empty."
    /\ ~failed
    /\ inflight = EmptyBag
    /\ todos # <<>>
    /\ todos = ToList(table)

\* C27: in PUT api/todo/{id} the comparison of the path id with the body id
\* comes before the lookup: with different ids the answer is never 404, it
\* is 400 also when neither id is in the table, and an item the body id
\* names keeps its isCompleted, so that the flip has not run.
C27_IdComparisonBeforeLookup ==
    \A id \in Ids, item \in TodoDtos :
        id # item.Id
            => LET status == PutTodoItemStatus(table, id, item)
                   after == PutTodoItemTable(table, id, item)
               IN  /\ status # 404
                   /\ Handled(table, PutRequest(id, item)).stage = "answered"
                   /\ Handled(table, PutRequest(id, item)).status = status
                   /\ (~Exists(table, id) /\ ~Exists(table, item.Id))
                          => status = 400 /\ after = table
                   /\ Exists(table, item.Id)
                          => /\ Exists(after, item.Id)
                             /\ Find(after, item.Id).IsCompleted
                                    = Find(table, item.Id).IsCompleted

\* A PUT was answered 400 on a table that has held items and holds none:
\* neither its path id nor its body id names an item.
C27_Witness ==
    /\ response.op = "PUT"
    /\ response.status = 400
    /\ table.current > 0
    /\ LiveIds(table) = {}

\* C28: when the answer to a request arrives, title becomes empty if the
\* request is a POST or a DELETE and the answer is ok, and stays as it is
\* for a PUT, for a GET, and for every answer that is not ok; a request that
\* fails on the network, the server handling a request, and the press of
\* a button that sends a request leave title as it is.
C28_TitleResetByCreateAndDelete ==
    [][/\ \A m \in BagToSet(inflight) :
            /\ title' # (IF ResponseOk(m) /\ m.method \in {"POST", "DELETE"}
                         THEN <<>>
                         ELSE title)
                   => ~ReceiveResponse(m)
            /\ title' # title
                   => ~NetworkFailure(m) /\ ~Serve(m) /\ ~ServeSaveChanges(m)
       /\ BagCardinality(inflight') > BagCardinality(inflight) => title' = title]_vars

\* The message of an Add refused for a title of tags only is displayed over
\* an empty title, nothing has failed and the table has lost its items: the
\* delete that followed the refused Add has emptied the title.
C28_Witness ==
    /\ error = "Todo title cannot be empty."
    /\ title = <<>>
    /\ ~failed
    /\ table.current > 0
    /\ LiveIds(table) = {}

\* C29: sanitizeInput applied to its own result gives the result again: the
\* result holds no match of the tag pattern and neither starts nor ends
\* with white space.
C29_SanitizeIdempotent ==
    LET r == sanitizeInput(title)
    IN  /\ sanitizeInput(r) = r
        /\ NextMatch(r, 1) > Len(r)
        /\ ReplaceTags(r, 1) = r
        /\ Trim(r) = r

\* Add was pressed on a title that ends with a match of the pattern after
\* white space, so that taking the match out leaves white space at the end,
\* and the POST on its way carries what sanitizeInput made of it.
C29_Witness ==
    /\ NextMatch(title, 1) <= Len(title)
    /\ title[Len(title)] \notin Whitespace
    /\ Trim(ReplaceTags(title, 1)) # ReplaceTags(title, 1)
    /\ \E m \in BagToSet(inflight) :
           m.method = "POST" /\ m.body.Title = sanitizeInput(title)

=============================================================================
